---- MODULE Spec2Model ----
(***************************************************************************)
(* Model of climattr's bootstrap attribution engine                        *)
(* (climattr/attribution.py, climattr/utils.py, climattr/validator.py).    *)
(*                                                                         *)
(* Floating point values are modelled as extended rationals <<n, d>> with  *)
(* d >= 0 in lowest terms: d = 0 stands for +inf (n = 1), -inf (n = -1)    *)
(* and NaN (n = 0), which is what numpy float64 division produces.         *)
(***************************************************************************)
EXTENDS Integers, Sequences, FiniteSets, TLC

VARIABLES
    fn,            \* the function under call
    fit_function,  \* the distribution object handed in
    pc,            \* position inside the call
    all_array,     \* attribution_metrics: flattened ALL sample
    nat_array,     \* attribution_metrics: flattened NAT sample
    data,          \* sample argument of the single-sample functions
    thresh,        \* threshold argument
    direction,     \* direction argument
    bootstrap_ci,  \* confidence level argument
    boot_size,     \* number of bootstrap rows
    rng_calls,     \* calls made to np.random.choice so far
    fit_calls,     \* calls made to fit_function.fit so far
    all_boot,      \* ALL ensemble
    nat_boot,      \* NAT ensemble
    boot,          \* completed iterations of the trial loop
    metrics,       \* per-trial arrays of the four metrics
    writes,        \* number of assignments made to every slot of metrics
    fitted_params, \* get_fitted_percentiles: the params argument
    percentiles,   \* get_fitted_percentiles: percentiles asked for
    ppf_calls,     \* calls made to fit_function.ppf so far
    command,       \* CLI sub-command in progress, "" for a direct call
    call_args,     \* further arguments of the call
    calls,         \* calls made to other libraries so far, in order
    ret,           \* returned value
    error          \* raised exception

vars == <<fn, fit_function, pc, all_array, nat_array, data, thresh, direction,
          bootstrap_ci, boot_size, rng_calls, fit_calls, all_boot, nat_boot,
          boot, metrics, writes, fitted_params, percentiles, ppf_calls,
          command, call_args, calls, ret, error>>

(***************************************************************************)
(* Bounds of the model.                                                    *)
(***************************************************************************)
MaxLen == 2
MaxVal == 3
MaxBoot == 2
MaxParams == 4

NoError == "NoError"

Values == 1..MaxVal
Samples == UNION {[1..n -> Values] : n \in 0..MaxLen}
Thresholds == 2..(MaxVal - 1)
Directions == {"ascending", "descending", "up"}
BootSizes == 0..MaxBoot
MetricNames == {"PR", "FAR", "RP_ALL", "RP_NAT"}
ColumnNames == {"value", "ci_inf", "ci_sup"}

(***************************************************************************)
(* Python values handed in as a confidence level: an int, a bool (a        *)
(* subclass of int: True is 1, False is 0), a float (50.5, kept in         *)
(* tenths) or a str.                                                       *)
(***************************************************************************)
PyInt(n) == [type |-> "int", x10 |-> 10 * n]
PyBool(b) == [type |-> "bool", x10 |-> IF b THEN 10 ELSE 0]
PyFloat10(t) == [type |-> "float", x10 |-> t]
PyStr(n) == [type |-> "str", x10 |-> 10 * n]
ConfidenceLevels == {PyInt(0), PyInt(50), PyInt(95), PyInt(101), PyFloat10(505)}

(***************************************************************************)
(* Extended rational arithmetic (float64 with inf and nan).                *)
(***************************************************************************)
Abs(x) == IF x < 0 THEN -x ELSE x
Sign(x) == IF x < 0 THEN -1 ELSE IF x > 0 THEN 1 ELSE 0

RECURSIVE GCD(_, _)
GCD(a, b) == IF b = 0 THEN a ELSE GCD(b, a % b)

Norm(n, d) ==
    IF d = 0 THEN <<Sign(n), 0>>
    ELSE LET g == GCD(Abs(n), d) IN <<n \div g, d \div g>>

R(n) == <<n, 1>>
Frac(n, d) == Norm(n, d)
NaN == <<0, 0>>
Inf == <<1, 0>>
IsNaN(a) == a = NaN
IsFinite(a) == a[2] > 0

RNeg(a) == <<-a[1], a[2]>>
RAdd(a, b) ==
    IF a[2] = 0 /\ b[2] = 0
    THEN (IF a = b THEN a ELSE NaN)
    ELSE Norm(a[1] * b[2] + b[1] * a[2], a[2] * b[2])
RSub(a, b) == RAdd(a, RNeg(b))
RMul(a, b) == Norm(a[1] * b[1], a[2] * b[2])
RDiv(a, b) ==
    LET s == IF b[1] < 0 THEN -1 ELSE 1
    IN Norm(s * a[1] * b[2], s * a[2] * b[1])
RLess(a, b) ==
    IF IsNaN(a) \/ IsNaN(b) THEN FALSE
    ELSE IF a[2] = 0 /\ b[2] = 0 THEN a[1] < b[1]
    ELSE a[1] * b[2] < b[1] * a[2]
RLeq(a, b) == ~IsNaN(a) /\ ~IsNaN(b) /\ (a = b \/ RLess(a, b))
RFloor(a) == a[1] \div a[2]

(***************************************************************************)
(* climattr/validator.py: TRUE when the validator returns, FALSE when it   *)
(* raises ValueError.                                                      *)
(***************************************************************************)
isinstance_int(value) == value.type \in {"int", "bool"}

validate_ci_exclusive(value) ==
    isinstance_int(value) /\ 0 < value.x10 /\ value.x10 < 1000

validate_ci(value) ==
    isinstance_int(value) /\ 0 < value.x10 /\ value.x10 <= 1000

validate_correction_method_any(value) == TRUE

validate_correction_method(value) == value \in {"add", "mult"}

validate_direction_any(value) == TRUE

validate_direction_prefix(value) ==
    value \in {"ascending", "descending", "ascend", "descend"}

validate_direction(value) == value \in {"ascending", "descending"}

(***************************************************************************)
(* climattr/utils.py get_percentiles_from_ci: the pair (ci_inf, ci_sup)    *)
(* computed after validate_ci has passed.                                  *)
(***************************************************************************)
get_percentiles_from_ci_unhalved(cofidence_interval) ==
    LET c == Frac(cofidence_interval.x10, 10)
    IN <<RDiv(RSub(R(100), c), R(2)), RSub(R(100), RSub(R(100), c))>>

get_percentiles_from_ci(cofidence_interval) ==
    LET c == Frac(cofidence_interval.x10, 10)
    IN <<RDiv(RSub(R(100), c), R(2)),
         RSub(R(100), RDiv(RSub(R(100), c), R(2)))>>

(***************************************************************************)
(* The distribution handed in as fit_function.  The model passes a uniform *)
(* family on [loc, loc + scale]: fit returns the two parameters            *)
(* (loc, scale) = (min - 1, max - min + 2), the sample range widened by    *)
(* one unit on each side, and raises on an empty sample.  sf and cdf       *)
(* reach 0 and 1 outside the fitted range.  Four objects expose it:        *)
(*   "uniform"          sf and cdf return numpy float64, as scipy.stats    *)
(*                      distributions do;                                  *)
(*   "uniform_strict"   the same, with a fit that also raises on a sample  *)
(*                      whose values are all equal;                        *)
(*   "uniform_pyfloat"  the same as "uniform", with sf and cdf returning   *)
(*                      Python floats;                                     *)
(*   "beta"             the same distribution written as a beta family     *)
(*                      with both shapes equal to 1: fit returns the four  *)
(*                      parameters (a, b, loc, scale) = (1, 1, loc, scale) *)
(*                      and sf and cdf take them back through *params.     *)
(***************************************************************************)
FitFunctions == {"uniform", "uniform_strict", "uniform_pyfloat", "beta"}

SeqMin(s) == CHOOSE x \in {s[i] : i \in 1..Len(s)} : \A j \in 1..Len(s) : x <= s[j]
SeqMax(s) == CHOOSE x \in {s[i] : i \in 1..Len(s)} : \A j \in 1..Len(s) : x >= s[j]

FitRaises(sample) ==
    \/ Len(sample) = 0
    \/ fit_function = "uniform_strict" /\ SeqMin(sample) = SeqMax(sample)
Fit(sample) ==
    LET loc == SeqMin(sample) - 1
        scale == SeqMax(sample) - SeqMin(sample) + 2
    IN IF fit_function = "beta" THEN <<1, 1, loc, scale>> ELSE <<loc, scale>>

\* loc and scale are the last two of the parameters handed back.
Cdf(x, params) ==
    LET z == Frac(x - params[Len(params) - 1], params[Len(params)])
    IN IF RLess(z, R(0)) THEN R(0) ELSE IF RLess(R(1), z) THEN R(1) ELSE z
Sf(x, params) == RSub(R(1), Cdf(x, params))

(***************************************************************************)
(* Python's a / b on what sf and cdf returned: a numpy float64 zero        *)
(* divisor gives inf or nan (with a RuntimeWarning), a Python float zero   *)
(* divisor raises ZeroDivisionError.                                       *)
(***************************************************************************)
ZeroDivision(b) == fit_function = "uniform_pyfloat" /\ b = R(0)

(***************************************************************************)
(* numpy: row sort, row reversal, np.random.choice, np.median and          *)
(* np.percentile (linear interpolation).                                   *)
(***************************************************************************)
SortRow_none(row) == row

SortRow(row) == SortSeq(row, LAMBDA a, b : a < b)
Reverse(row) == [i \in 1..Len(row) |-> row[Len(row) + 1 - i]]

ChoiceRaises(a, rows, cols) == Len(a) = 0 /\ rows * cols # 0
RowDraws_arange(a, cols) ==
    {[j \in 1..cols |-> idx[j] - 1] : idx \in [1..cols -> 1..Len(a)]}

RowDraws(a, cols) ==
    {[j \in 1..cols |-> a[idx[j]]] : idx \in [1..cols -> 1..Len(a)]}

HasNaN(a) == \E i \in 1..Len(a) : IsNaN(a[i])
SortNum(a) == SortSeq(a, LAMBDA x, y : RLess(x, y))

Lerp_no_diff(a, b, t) ==
    IF RLeq(Frac(1, 2), t)
    THEN RSub(b, RMul(b, RSub(R(1), t)))
    ELSE RAdd(a, RMul(b, t))

Lerp(a, b, t) ==
    LET diff_b_a == RSub(b, a)
    IN IF RLeq(Frac(1, 2), t)
       THEN RSub(b, RMul(diff_b_a, RSub(R(1), t)))
       ELSE RAdd(a, RMul(diff_b_a, t))

np_percentile(a, q) ==
    IF Len(a) = 0 \/ HasNaN(a) THEN NaN
    ELSE LET s == SortNum(a)
             n == Len(a)
             virtual == RMul(RDiv(q, R(100)), R(n - 1))
             lo == RFloor(virtual)
             hi == IF lo + 1 > n - 1 THEN n - 1 ELSE lo + 1
         IN Lerp(s[lo + 1], s[hi + 1], RSub(virtual, R(lo)))

np_median(a) ==
    IF Len(a) = 0 \/ HasNaN(a) THEN NaN
    ELSE LET s == SortNum(a)
             n == Len(a)
         IN IF n % 2 = 1 THEN s[(n + 1) \div 2]
            ELSE RDiv(RAdd(s[n \div 2], s[n \div 2 + 1]), R(2))

(***************************************************************************)
(* climattr/attribution.py _calc_bootstrap_ensemble: the set of ensembles  *)
(* the call can return.  The draw fills size rows independently and the    *)
(* sort and the reversal act on each row, so the outcomes are all tables   *)
(* of size rows, each a sorted (and reversed) draw of n_samples values.    *)
(***************************************************************************)
SortedRow(row, dir) ==
    IF dir = "descending" THEN Reverse(SortRow(row)) ELSE SortRow(row)

calc_bootstrap_ensemble_transposed(d, dir, size) ==
    LET n_samples == Len(d)
    IN [1..n_samples -> {SortedRow(row, dir) : row \in RowDraws(d, size)}]

calc_bootstrap_ensemble(d, dir, size) ==
    LET n_samples == Len(d)
    IN [1..size -> {SortedRow(row, dir) : row \in RowDraws(d, n_samples)}]

(***************************************************************************)
(* climattr/attribution.py _pr_calculation, _far_calculation and           *)
(* _rp_calculation: the value returned when nothing raises, whether a fit  *)
(* raises, whether a division raises ZeroDivisionError, and the number of  *)
(* fits made before the call returns or raises.                            *)
(***************************************************************************)
pr_calculation_inverted(a, n, th, dir) ==
    LET params_all == Fit(a)
        params_nat == Fit(n)
    IN IF dir = "descending"
       THEN RDiv(Sf(th, params_nat), Sf(th, params_all))
       ELSE RDiv(Cdf(th, params_nat), Cdf(th, params_all))

pr_calculation(a, n, th, dir) ==
    LET params_all == Fit(a)
        params_nat == Fit(n)
    IN IF dir = "descending"
       THEN RDiv(Sf(th, params_all), Sf(th, params_nat))
       ELSE RDiv(Cdf(th, params_all), Cdf(th, params_nat))

pr_raises(a, n) == FitRaises(a) \/ FitRaises(n)
pr_fits(a, n) == IF FitRaises(a) THEN 1 ELSE 2
pr_zero_division(a, n, th, dir) ==
    LET params_nat == Fit(n)
    IN ZeroDivision(IF dir = "descending" THEN Sf(th, params_nat)
                                          ELSE Cdf(th, params_nat))

far_calculation_ascending(a, n, th) ==
    RSub(R(1), RDiv(R(1), pr_calculation(a, n, th, "ascending")))

far_calculation(a, n, th) ==
    RSub(R(1), RDiv(R(1), pr_calculation(a, n, th, "descending")))

rp_calculation_swapped(d, th, dir) ==
    LET params == Fit(d)
    IN IF dir = "descending"
       THEN RDiv(R(1), Cdf(th, params))
       ELSE RDiv(R(1), Sf(th, params))

rp_calculation(d, th, dir) ==
    LET params == Fit(d)
    IN IF dir = "descending"
       THEN RDiv(R(1), Sf(th, params))
       ELSE RDiv(R(1), Cdf(th, params))

far_zero_division(a, n, th) ==
    \/ pr_zero_division(a, n, th, "descending")
    \/ ZeroDivision(pr_calculation(a, n, th, "descending"))

rp_raises(d) == FitRaises(d)
rp_zero_division(d, th, dir) ==
    LET params == Fit(d)
    IN ZeroDivision(IF dir = "descending" THEN Sf(th, params)
                                          ELSE Cdf(th, params))

(***************************************************************************)
(* attribution_metrics, lines 457-473: the four values written to slot b   *)
(* (0-based) of the metrics arrays by one iteration of the loop.           *)
(***************************************************************************)
trial_metrics_first_row(ab, nb, b, th, dir) ==
    [PR     |-> pr_calculation(ab[1], nb[b + 1], th, dir),
     FAR    |-> far_calculation(ab[1], nb[b + 1], th),
     RP_ALL |-> rp_calculation(ab[1], th, dir),
     RP_NAT |-> rp_calculation(nb[b + 1], th, dir)]

trial_metrics_far_directed(ab, nb, b, th, dir) ==
    [PR     |-> pr_calculation(ab[b + 1], nb[b + 1], th, dir),
     FAR    |-> RSub(R(1), RDiv(R(1), pr_calculation(ab[b + 1], nb[b + 1], th, dir))),
     RP_ALL |-> rp_calculation(ab[b + 1], th, dir),
     RP_NAT |-> rp_calculation(nb[b + 1], th, dir)]

trial_metrics(ab, nb, b, th, dir) ==
    [PR     |-> pr_calculation(ab[b + 1], nb[b + 1], th, dir),
     FAR    |-> far_calculation(ab[b + 1], nb[b + 1], th),
     RP_ALL |-> rp_calculation(ab[b + 1], th, dir),
     RP_NAT |-> rp_calculation(nb[b + 1], th, dir)]

trial_raises(ab, nb, b) == pr_raises(ab[b + 1], nb[b + 1])

\* The metrics in the order the iteration assigns them, and the number of
\* them assigned before the iteration ends or a division raises.
MetricOrder == <<"PR", "FAR", "RP_ALL", "RP_NAT">>
MetricPos(m) == CHOOSE k \in 1..Len(MetricOrder) : MetricOrder[k] = m
trial_assigned(ab, nb, b, th, dir) ==
    IF trial_raises(ab, nb, b) THEN 0
    ELSE IF pr_zero_division(ab[b + 1], nb[b + 1], th, dir) THEN 0
    ELSE IF far_zero_division(ab[b + 1], nb[b + 1], th) THEN 1
    ELSE IF rp_zero_division(ab[b + 1], th, dir) THEN 2
    ELSE IF rp_zero_division(nb[b + 1], th, dir) THEN 3
    ELSE Len(MetricOrder)

trial_fits(ab, nb, b, th, dir) ==
    IF trial_raises(ab, nb, b) THEN pr_fits(ab[b + 1], nb[b + 1])
    ELSE LET k == trial_assigned(ab, nb, b, th, dir)
         IN IF k = 0 THEN 2 ELSE IF k = 1 THEN 4 ELSE IF k = 2 THEN 5 ELSE 6

(***************************************************************************)
(* attribution_metrics, lines 478-488: the result table.                   *)
(***************************************************************************)
metrics_result_swapped_bounds(m, ci) ==
    [metric_name \in MetricNames |->
        [value  |-> np_median(m[metric_name]),
         ci_inf |-> np_percentile(m[metric_name], ci[2]),
         ci_sup |-> np_percentile(m[metric_name], ci[1])]]

metrics_result_same_bound(m, ci) ==
    [metric_name \in MetricNames |->
        [value  |-> np_median(m[metric_name]),
         ci_inf |-> np_percentile(m[metric_name], ci[1]),
         ci_sup |-> np_percentile(m[metric_name], ci[1])]]

metrics_result(m, ci) ==
    [metric_name \in MetricNames |->
        [value  |-> np_median(m[metric_name]),
         ci_inf |-> np_percentile(m[metric_name], ci[1]),
         ci_sup |-> np_percentile(m[metric_name], ci[2])]]

Zeros(n) == [i \in 1..n |-> R(0)]

(***************************************************************************)
(* State before a call.                                                    *)
(***************************************************************************)
Fresh ==
    /\ pc = "entry"
    /\ rng_calls = 0
    /\ fit_calls = 0
    /\ all_boot = <<>>
    /\ nat_boot = <<>>
    /\ boot = 0
    /\ metrics = [m \in MetricNames |-> <<>>]
    /\ writes = [m \in MetricNames |-> <<>>]
    /\ ppf_calls = <<>>
    /\ calls = <<>>
    /\ ret = <<>>
    /\ error = NoError

(***************************************************************************)
(* Spec: one call of attribution_metrics.                                  *)
(***************************************************************************)
Init ==
    /\ fn = "attribution_metrics"
    /\ fit_function = "uniform"
    /\ all_array \in Samples
    /\ nat_array \in Samples
    /\ data = <<>>
    /\ thresh \in Thresholds
    /\ direction \in Directions
    /\ bootstrap_ci \in ConfidenceLevels
    /\ boot_size \in BootSizes
    /\ fitted_params = <<>>
    /\ percentiles = <<>>
    /\ command = ""
    /\ call_args = <<>>
    /\ Fresh

\* lines 442-445
Validate ==
    /\ fn = "attribution_metrics" /\ pc = "entry"
    /\ IF validate_direction(direction)
       THEN pc' = "validated" /\ error' = error
       ELSE pc' = "raised" /\ error' = "ValueError"
    /\ UNCHANGED <<fitted_params, percentiles, ppf_calls, command, call_args, calls>>
    /\ UNCHANGED <<fn, fit_function, all_array, nat_array, data, thresh, direction,
                   bootstrap_ci, boot_size, rng_calls, fit_calls, all_boot,
                   nat_boot, boot, metrics, writes, ret>>

\* line 447
ResampleAll_directed ==
    /\ fn = "attribution_metrics" /\ pc = "validated"
    /\ rng_calls' = rng_calls + 1
    /\ IF ChoiceRaises(all_array, boot_size, Len(all_array))
       THEN pc' = "raised" /\ error' = "ValueError" /\ all_boot' = all_boot
       ELSE /\ all_boot' \in calc_bootstrap_ensemble(all_array, direction, boot_size)
            /\ pc' = "all_boot" /\ error' = error
    /\ UNCHANGED <<fitted_params, percentiles, ppf_calls, command, call_args, calls>>
    /\ UNCHANGED <<fn, fit_function, all_array, nat_array, data, thresh, direction,
                   bootstrap_ci, boot_size, fit_calls, nat_boot, boot,
                   metrics, writes, ret>>

ResampleAll ==
    /\ fn = "attribution_metrics" /\ pc = "validated"
    /\ rng_calls' = rng_calls + 1
    /\ IF ChoiceRaises(all_array, boot_size, Len(all_array))
       THEN pc' = "raised" /\ error' = "ValueError" /\ all_boot' = all_boot
       ELSE /\ all_boot' \in calc_bootstrap_ensemble(all_array, "ascending", boot_size)
            /\ pc' = "all_boot" /\ error' = error
    /\ UNCHANGED <<fitted_params, percentiles, ppf_calls, command, call_args, calls>>
    /\ UNCHANGED <<fn, fit_function, all_array, nat_array, data, thresh, direction,
                   bootstrap_ci, boot_size, fit_calls, nat_boot, boot,
                   metrics, writes, ret>>

\* lines 448-456
ResampleNat_all_length ==
    /\ fn = "attribution_metrics" /\ pc = "all_boot"
    /\ rng_calls' = rng_calls + 1
    /\ IF ChoiceRaises(nat_array, boot_size, Len(all_array))
       THEN /\ pc' = "raised" /\ error' = "ValueError"
            /\ UNCHANGED <<nat_boot, metrics, writes>>
       ELSE /\ nat_boot' \in [1..boot_size ->
                                 {SortedRow(row, "ascending") :
                                      row \in RowDraws(nat_array, Len(all_array))}]
            /\ metrics' = [m \in MetricNames |-> Zeros(boot_size)]
            /\ writes' = [m \in MetricNames |-> [i \in 1..boot_size |-> 0]]
            /\ pc' = "loop" /\ error' = error
    /\ UNCHANGED <<fitted_params, percentiles, ppf_calls, command, call_args, calls>>
    /\ UNCHANGED <<fn, fit_function, all_array, nat_array, data, thresh, direction,
                   bootstrap_ci, boot_size, fit_calls, all_boot, boot, ret>>

ResampleNat ==
    /\ fn = "attribution_metrics" /\ pc = "all_boot"
    /\ rng_calls' = rng_calls + 1
    /\ IF ChoiceRaises(nat_array, boot_size, Len(nat_array))
       THEN /\ pc' = "raised" /\ error' = "ValueError"
            /\ UNCHANGED <<nat_boot, metrics, writes>>
       ELSE /\ nat_boot' \in calc_bootstrap_ensemble(nat_array, "ascending", boot_size)
            /\ metrics' = [m \in MetricNames |-> Zeros(boot_size)]
            /\ writes' = [m \in MetricNames |-> [i \in 1..boot_size |-> 0]]
            /\ pc' = "loop" /\ error' = error
    /\ UNCHANGED <<fitted_params, percentiles, ppf_calls, command, call_args, calls>>
    /\ UNCHANGED <<fn, fit_function, all_array, nat_array, data, thresh, direction,
                   bootstrap_ci, boot_size, fit_calls, all_boot, boot, ret>>

\* lines 457-473, one iteration
Trial_skips_failed ==
    /\ fn = "attribution_metrics" /\ pc = "loop" /\ boot < boot_size
    /\ IF trial_raises(all_boot, nat_boot, boot)
       THEN /\ boot' = boot + 1
            /\ UNCHANGED <<pc, error, metrics, writes, fit_calls>>
       ELSE \E t \in {trial_metrics(all_boot, nat_boot, boot, thresh, direction)} :
            /\ metrics' = [m \in MetricNames |->
                              [metrics[m] EXCEPT ![boot + 1] = t[m]]]
            /\ writes' = [m \in MetricNames |->
                             [writes[m] EXCEPT ![boot + 1] = @ + 1]]
            /\ fit_calls' = fit_calls + 6
            /\ boot' = boot + 1
            /\ UNCHANGED <<pc, error>>
    /\ UNCHANGED <<fitted_params, percentiles, ppf_calls, command, call_args, calls>>
    /\ UNCHANGED <<fn, fit_function, all_array, nat_array, data, thresh, direction,
                   bootstrap_ci, boot_size, rng_calls, all_boot, nat_boot, ret>>

Trial ==
    /\ fn = "attribution_metrics" /\ pc = "loop" /\ boot < boot_size
    /\ fit_calls' = fit_calls + trial_fits(all_boot, nat_boot, boot, thresh, direction)
    /\ IF trial_raises(all_boot, nat_boot, boot)
       THEN /\ pc' = "raised" /\ error' = "FitError"
            /\ UNCHANGED <<boot, metrics, writes>>
       ELSE \E t \in {trial_metrics(all_boot, nat_boot, boot, thresh, direction)},
               k \in {trial_assigned(all_boot, nat_boot, boot, thresh, direction)} :
            /\ metrics' = [m \in MetricNames |->
                              IF MetricPos(m) <= k
                              THEN [metrics[m] EXCEPT ![boot + 1] = t[m]]
                              ELSE metrics[m]]
            /\ writes' = [m \in MetricNames |->
                             IF MetricPos(m) <= k
                             THEN [writes[m] EXCEPT ![boot + 1] = @ + 1]
                             ELSE writes[m]]
            /\ IF k = Len(MetricOrder)
               THEN boot' = boot + 1 /\ UNCHANGED <<pc, error>>
               ELSE pc' = "raised" /\ error' = "ZeroDivisionError" /\ boot' = boot
    /\ UNCHANGED <<fitted_params, percentiles, ppf_calls, command, call_args, calls>>
    /\ UNCHANGED <<fn, fit_function, all_array, nat_array, data, thresh, direction,
                   bootstrap_ci, boot_size, rng_calls, all_boot, nat_boot, ret>>

\* lines 475-490
Aggregate ==
    /\ fn = "attribution_metrics" /\ pc = "loop" /\ boot = boot_size
    /\ IF validate_ci(bootstrap_ci)
       THEN /\ ret' = <<metrics_result(metrics, get_percentiles_from_ci(bootstrap_ci))>>
            /\ pc' = "returned" /\ error' = error
       ELSE pc' = "raised" /\ error' = "ValueError" /\ ret' = ret
    /\ UNCHANGED <<fitted_params, percentiles, ppf_calls, command, call_args, calls>>
    /\ UNCHANGED <<fn, fit_function, all_array, nat_array, data, thresh, direction,
                   bootstrap_ci, boot_size, rng_calls, fit_calls, all_boot,
                   nat_boot, boot, metrics, writes>>

Next == Validate \/ ResampleAll \/ ResampleNat \/ Trial \/ Aggregate

Spec == Init /\ [][Next]_vars

(***************************************************************************)
(* SpecFit: one call of attribution_metrics with a distribution whose fit  *)
(* raises on some resamples of a non-empty sample, or whose sf and cdf     *)
(* return Python floats, or whose fit returns four parameters.             *)
(***************************************************************************)
InitFit ==
    /\ fn = "attribution_metrics"
    /\ fit_function \in {"uniform_strict", "uniform_pyfloat", "beta"}
    /\ all_array \in Samples
    /\ nat_array \in Samples
    /\ data = <<>>
    /\ thresh \in Thresholds
    /\ direction \in Directions
    /\ bootstrap_ci \in ConfidenceLevels
    /\ boot_size \in BootSizes
    /\ fitted_params = <<>>
    /\ percentiles = <<>>
    /\ command = ""
    /\ call_args = <<>>
    /\ Fresh

SpecFit == InitFit /\ [][Next]_vars

(***************************************************************************)
(* SpecCli: one run of the attr-metrics command, cli/methods.py            *)
(* method_attribution_metrics, lines 61-80, with the options declared by   *)
(* cli/parsers.py parser_attribution_metrics.  call_args holds the two     *)
(* samples read from the files and the parsed --thresh and --direction.    *)
(* The default boot_size of attribution_metrics stands at MaxBoot.         *)
(***************************************************************************)
DirectionChoices == {"descending", "ascending"}

InitCli ==
    /\ fn = "method_attribution_metrics"
    /\ fit_function = "uniform"
    /\ command = "attr-metrics"
    /\ call_args \in [all : Samples, nat : Samples, thresh : Thresholds,
                       direction : DirectionChoices]
    /\ all_array = <<>>
    /\ nat_array = <<>>
    /\ data = <<>>
    /\ thresh = 0
    /\ direction = ""
    /\ bootstrap_ci = PyInt(0)
    /\ boot_size = 0
    /\ fitted_params = <<>>
    /\ percentiles = <<>>
    /\ Fresh

\* methods.py lines 63-74: the call of attribution_metrics
CliCall ==
    /\ fn = "method_attribution_metrics" /\ pc = "entry"
    /\ fn' = "attribution_metrics"
    /\ all_array' = call_args.all
    /\ nat_array' = call_args.nat
    /\ thresh' = call_args.thresh
    /\ bootstrap_ci' = PyInt(95)
    /\ direction' = "descending"
    /\ boot_size' = MaxBoot
    /\ UNCHANGED <<fit_function, pc, data, rng_calls, fit_calls, all_boot,
                   nat_boot, boot, metrics, writes, fitted_params, percentiles,
                   ppf_calls, command, call_args, calls, ret, error>>

\* methods.py lines 77-80: print and metrics.to_csv(args.ofile)
CliWrite ==
    /\ command = "attr-metrics"
    /\ fn = "attribution_metrics" /\ pc = "returned"
    /\ calls' = Append(calls, [name |-> "to_csv", frame |-> ret[1]])
    /\ fn' = "method_attribution_metrics"
    /\ ret' = <<>>
    /\ UNCHANGED <<fit_function, pc, all_array, nat_array, data, thresh,
                   direction, bootstrap_ci, boot_size, rng_calls, fit_calls,
                   all_boot, nat_boot, boot, metrics, writes, fitted_params,
                   percentiles, ppf_calls, command, call_args, error>>

NextCli == CliCall \/ Next \/ CliWrite

SpecCli == InitCli /\ [][NextCli]_vars

(***************************************************************************)
(* SpecBoot: one direct call of _calc_bootstrap_ensemble(data, direction,  *)
(* boot_size), lines 66-78.                                                *)
(***************************************************************************)
InitBoot ==
    /\ fn = "_calc_bootstrap_ensemble"
    /\ fit_function = "uniform"
    /\ all_array = <<>>
    /\ nat_array = <<>>
    /\ data \in Samples
    /\ thresh = 0
    /\ direction \in Directions
    /\ bootstrap_ci = PyInt(95)
    /\ boot_size \in BootSizes
    /\ fitted_params = <<>>
    /\ percentiles = <<>>
    /\ command = ""
    /\ call_args = <<>>
    /\ Fresh

CalcBootstrapEnsemble_in_place ==
    /\ fn = "_calc_bootstrap_ensemble" /\ pc = "entry"
    /\ rng_calls' = rng_calls + 1
    /\ IF ChoiceRaises(data, boot_size, Len(data))
       THEN pc' = "raised" /\ error' = "ValueError" /\ ret' = ret /\ data' = data
       ELSE /\ \E sample_store \in calc_bootstrap_ensemble(data, direction, boot_size) :
                 ret' = <<sample_store>>
            /\ data' = SortedRow(data, direction)
            /\ pc' = "returned" /\ error' = error
    /\ UNCHANGED <<fitted_params, percentiles, ppf_calls, command, call_args, calls>>
    /\ UNCHANGED <<fn, fit_function, all_array, nat_array, thresh, direction,
                   bootstrap_ci, boot_size, fit_calls, all_boot, nat_boot,
                   boot, metrics, writes>>

CalcBootstrapEnsemble ==
    /\ fn = "_calc_bootstrap_ensemble" /\ pc = "entry"
    /\ rng_calls' = rng_calls + 1
    /\ IF ChoiceRaises(data, boot_size, Len(data))
       THEN pc' = "raised" /\ error' = "ValueError" /\ ret' = ret
       ELSE /\ \E sample_store \in calc_bootstrap_ensemble(data, direction, boot_size) :
                 ret' = <<sample_store>>
            /\ pc' = "returned" /\ error' = error
    /\ UNCHANGED <<fitted_params, percentiles, ppf_calls, command, call_args, calls>>
    /\ UNCHANGED <<fn, fit_function, all_array, nat_array, data, thresh, direction,
                   bootstrap_ci, boot_size, fit_calls, all_boot, nat_boot,
                   boot, metrics, writes>>

NextBoot == CalcBootstrapEnsemble

SpecBoot == InitBoot /\ [][NextBoot]_vars

(***************************************************************************)
(* SpecCalc: one direct call of _pr_calculation, _far_calculation or       *)
(* _rp_calculation, lines 301-311, 346-348 and 383-390.                    *)
(***************************************************************************)
InitCalc ==
    /\ fn \in {"_pr_calculation", "_far_calculation", "_rp_calculation"}
    /\ fit_function \in {"uniform", "uniform_pyfloat"}
    /\ all_array \in Samples
    /\ nat_array \in Samples
    /\ data \in Samples
    /\ (fn = "_rp_calculation" => all_array = <<>> /\ nat_array = <<>>)
    /\ (fn # "_rp_calculation" => data = <<>>)
    /\ thresh \in Thresholds
    /\ direction \in Directions
    /\ (fn = "_far_calculation" => direction = "descending")
    /\ bootstrap_ci = PyInt(95)
    /\ boot_size = 0
    /\ fitted_params = <<>>
    /\ percentiles = <<>>
    /\ command = ""
    /\ call_args = <<>>
    /\ Fresh

PrCalculation ==
    /\ fn = "_pr_calculation" /\ pc = "entry"
    /\ fit_calls' = fit_calls + pr_fits(all_array, nat_array)
    /\ IF pr_raises(all_array, nat_array)
       THEN pc' = "raised" /\ error' = "FitError" /\ ret' = ret
       ELSE IF pr_zero_division(all_array, nat_array, thresh, direction)
       THEN pc' = "raised" /\ error' = "ZeroDivisionError" /\ ret' = ret
       ELSE /\ ret' = <<pr_calculation(all_array, nat_array, thresh, direction)>>
            /\ pc' = "returned" /\ error' = error
    /\ UNCHANGED <<fitted_params, percentiles, ppf_calls, command, call_args, calls>>
    /\ UNCHANGED <<fn, fit_function, all_array, nat_array, data, thresh, direction,
                   bootstrap_ci, boot_size, rng_calls, all_boot, nat_boot,
                   boot, metrics, writes>>

FarCalculation ==
    /\ fn = "_far_calculation" /\ pc = "entry"
    /\ fit_calls' = fit_calls + pr_fits(all_array, nat_array)
    /\ IF pr_raises(all_array, nat_array)
       THEN pc' = "raised" /\ error' = "FitError" /\ ret' = ret
       ELSE IF far_zero_division(all_array, nat_array, thresh)
       THEN pc' = "raised" /\ error' = "ZeroDivisionError" /\ ret' = ret
       ELSE /\ ret' = <<far_calculation(all_array, nat_array, thresh)>>
            /\ pc' = "returned" /\ error' = error
    /\ UNCHANGED <<fitted_params, percentiles, ppf_calls, command, call_args, calls>>
    /\ UNCHANGED <<fn, fit_function, all_array, nat_array, data, thresh, direction,
                   bootstrap_ci, boot_size, rng_calls, all_boot, nat_boot,
                   boot, metrics, writes>>

RpCalculation ==
    /\ fn = "_rp_calculation" /\ pc = "entry"
    /\ fit_calls' = fit_calls + 1
    /\ IF rp_raises(data)
       THEN pc' = "raised" /\ error' = "FitError" /\ ret' = ret
       ELSE IF rp_zero_division(data, thresh, direction)
       THEN pc' = "raised" /\ error' = "ZeroDivisionError" /\ ret' = ret
       ELSE /\ ret' = <<rp_calculation(data, thresh, direction)>>
            /\ pc' = "returned" /\ error' = error
    /\ UNCHANGED <<fitted_params, percentiles, ppf_calls, command, call_args, calls>>
    /\ UNCHANGED <<fn, fit_function, all_array, nat_array, data, thresh, direction,
                   bootstrap_ci, boot_size, rng_calls, all_boot, nat_boot,
                   boot, metrics, writes>>

NextCalc == PrCalculation \/ FarCalculation \/ RpCalculation

SpecCalc == InitCalc /\ [][NextCalc]_vars

(***************************************************************************)
(* SpecCI: one direct call of _calc_return_time_confidence(data,           *)
(* direction, bootstrap_ci, boot_size), lines 137-147.  np.percentile      *)
(* with axis=0 and the two percentiles gives two rows, each holding the    *)
(* percentile of every column of sample_store.  The local sample_store is  *)
(* kept in all_boot.                                                       *)
(***************************************************************************)
Column(sample_store, i) ==
    [b \in 1..Len(sample_store) |-> R(sample_store[b][i])]

conf_inter_swapped(sample_store, n_samples, q) ==
    [k \in 1..2 |->
        [i \in 1..n_samples |-> np_percentile(Column(sample_store, i), q[3 - k])]]

conf_inter(sample_store, n_samples, q) ==
    [k \in 1..2 |->
        [i \in 1..n_samples |-> np_percentile(Column(sample_store, i), q[k])]]

InitCI ==
    /\ fn = "_calc_return_time_confidence"
    /\ fit_function = "uniform"
    /\ all_array = <<>>
    /\ nat_array = <<>>
    /\ data \in Samples
    /\ thresh = 0
    /\ direction \in Directions
    /\ bootstrap_ci \in ConfidenceLevels \cup {PyInt(1), PyInt(90), PyInt(100)}
    /\ boot_size \in BootSizes
    /\ fitted_params = <<>>
    /\ percentiles = <<>>
    /\ command = ""
    /\ call_args = <<>>
    /\ Fresh

CalcReturnTimeConfidence_undirected ==
    /\ fn = "_calc_return_time_confidence" /\ pc = "entry"
    /\ IF ~validate_ci(bootstrap_ci)
       THEN /\ pc' = "raised" /\ error' = "ValueError"
            /\ UNCHANGED <<rng_calls, all_boot, ret>>
       ELSE /\ rng_calls' = rng_calls + 1
            /\ IF ChoiceRaises(data, boot_size, Len(data))
               THEN /\ pc' = "raised" /\ error' = "ValueError"
                    /\ UNCHANGED <<all_boot, ret>>
               ELSE \E sample_store \in calc_bootstrap_ensemble(data, "ascending", boot_size) :
                    /\ all_boot' = sample_store
                    /\ ret' = <<conf_inter(sample_store, Len(data),
                                           get_percentiles_from_ci(bootstrap_ci))>>
                    /\ pc' = "returned" /\ error' = error
    /\ UNCHANGED <<fitted_params, percentiles, ppf_calls, command, call_args, calls>>
    /\ UNCHANGED <<fn, fit_function, all_array, nat_array, data, thresh, direction,
                   bootstrap_ci, boot_size, fit_calls, nat_boot, boot, metrics,
                   writes>>

CalcReturnTimeConfidence ==
    /\ fn = "_calc_return_time_confidence" /\ pc = "entry"
    /\ IF ~validate_ci(bootstrap_ci)
       THEN /\ pc' = "raised" /\ error' = "ValueError"
            /\ UNCHANGED <<rng_calls, all_boot, ret>>
       ELSE /\ rng_calls' = rng_calls + 1
            /\ IF ChoiceRaises(data, boot_size, Len(data))
               THEN /\ pc' = "raised" /\ error' = "ValueError"
                    /\ UNCHANGED <<all_boot, ret>>
               ELSE \E sample_store \in calc_bootstrap_ensemble(data, direction, boot_size) :
                    /\ all_boot' = sample_store
                    /\ ret' = <<conf_inter(sample_store, Len(data),
                                           get_percentiles_from_ci(bootstrap_ci))>>
                    /\ pc' = "returned" /\ error' = error
    /\ UNCHANGED <<fitted_params, percentiles, ppf_calls, command, call_args, calls>>
    /\ UNCHANGED <<fn, fit_function, all_array, nat_array, data, thresh, direction,
                   bootstrap_ci, boot_size, fit_calls, nat_boot, boot, metrics,
                   writes>>

NextCI == CalcReturnTimeConfidence

SpecCI == InitCI /\ [][NextCI]_vars

(***************************************************************************)
(* SpecPpf: one direct call of get_fitted_percentiles(percentiles, params, *)
(* fit_function), utils.py lines 302-315.  A call of fit_function.ppf is   *)
(* recorded with its first argument q, its further positional arguments    *)
(* and its loc and scale keywords.  The object's ppf is                    *)
(* loc + scale * (standard quantile), the standard quantile being q with   *)
(* no shape argument (uniform) and (q^c - (1 - q)^c) / c with one shape    *)
(* argument c (Tukey lambda).                                              *)
(***************************************************************************)
RECURSIVE RPow(_, _)
RPow(a, k) == IF k = 0 THEN R(1) ELSE RMul(a, RPow(a, k - 1))

StdPpf(q, args) ==
    IF Len(args) = 0 THEN q
    ELSE RDiv(RSub(RPow(q, args[1]), RPow(RSub(R(1), q), args[1])), R(args[1]))

Ppf(call) ==
    [i \in 1..Len(call.q) |->
        RAdd(R(call.loc), RMul(R(call.scale), StdPpf(call.q[i], call.args)))]

PercentValues == {0, 50, 100}
PercentileArrays == UNION {[1..n -> PercentValues] : n \in 0..MaxLen}
ParamTuples == UNION {[1..n -> Values] : n \in 0..MaxParams}

Scaled(p) == [i \in 1..Len(p) |-> Frac(p[i], 100)]

ppf_call_shape_last(p, pr) ==
    IF Len(pr) = 2
    THEN [q |-> Scaled(p), args |-> <<>>, loc |-> pr[1], scale |-> pr[2]]
    ELSE [q |-> Scaled(p), args |-> <<pr[3]>>, loc |-> pr[1], scale |-> pr[2]]

ppf_call(p, pr) ==
    IF Len(pr) = 2
    THEN [q |-> Scaled(p), args |-> <<>>, loc |-> pr[1], scale |-> pr[2]]
    ELSE [q |-> Scaled(p), args |-> <<pr[1]>>, loc |-> pr[2], scale |-> pr[3]]

InitPpf ==
    /\ fn = "get_fitted_percentiles"
    /\ fit_function = "uniform"
    /\ all_array = <<>>
    /\ nat_array = <<>>
    /\ data = <<>>
    /\ thresh = 0
    /\ direction = "ascending"
    /\ bootstrap_ci = PyInt(95)
    /\ boot_size = 0
    /\ fitted_params \in ParamTuples
    /\ percentiles \in PercentileArrays
    /\ command = ""
    /\ call_args = <<>>
    /\ Fresh

GetFittedPercentiles ==
    /\ fn = "get_fitted_percentiles" /\ pc = "entry"
    /\ IF Len(fitted_params) \in {2, 3}
       THEN /\ ppf_calls' = Append(ppf_calls, ppf_call(percentiles, fitted_params))
            /\ ret' = <<Ppf(ppf_call(percentiles, fitted_params))>>
            /\ pc' = "returned" /\ error' = error
       ELSE /\ pc' = "raised" /\ error' = "ValueError"
            /\ UNCHANGED <<ppf_calls, ret>>
    /\ UNCHANGED <<fitted_params, percentiles, command, call_args, calls>>
    /\ UNCHANGED <<fn, fit_function, all_array, nat_array, data, thresh,
                   direction, bootstrap_ci, boot_size, rng_calls, fit_calls,
                   all_boot, nat_boot, boot, metrics, writes>>

NextPpf == GetFittedPercentiles

SpecPpf == InitPpf /\ [][NextPpf]_vars

(***************************************************************************)
(* SpecPlot: one direct call of spatial._plot_area(spatial_sel, mask,      *)
(* box), spatial.py lines 91-100.  "None" stands for the object None, ""   *)
(* for the empty string; both are false in `not spatial_sel`.  An absent   *)
(* mask is "" and an absent box is <<>>.  The plotting calls are recorded  *)
(* in calls.                                                               *)
(***************************************************************************)
SpatialSels == {"mask", "box", "invalid", "Mask", "", "None"}
MaskPaths == {"", "path/to/fake/shapefile.shp"}
Boxes == {<<>>} \cup [1..4 -> {0 - 5, 5}]

Falsy(value) == value \in {"", "None"}

InitPlot ==
    /\ fn = "_plot_area"
    /\ fit_function = "uniform"
    /\ command = ""
    /\ call_args \in [spatial_sel : SpatialSels, mask : MaskPaths, box : Boxes]
    /\ all_array = <<>>
    /\ nat_array = <<>>
    /\ data = <<>>
    /\ thresh = 0
    /\ direction = "ascending"
    /\ bootstrap_ci = PyInt(95)
    /\ boot_size = 0
    /\ fitted_params = <<>>
    /\ percentiles = <<>>
    /\ Fresh

PlotArea ==
    /\ fn = "_plot_area" /\ pc = "entry"
    /\ IF Falsy(call_args.spatial_sel)
       THEN \* line 92 builds a ValueError and drops it: nothing is raised
            calls' = calls
       ELSE IF call_args.spatial_sel = "mask"
       THEN calls' = calls \o <<[name |-> "plt.subplots"],
                                [name |-> "add_features", shapename |-> call_args.mask],
                                [name |-> "plt.show"]>>
       ELSE IF call_args.spatial_sel = "box"
       THEN calls' = calls \o <<[name |-> "plt.subplots"],
                                [name |-> "add_features", extent |-> call_args.box],
                                [name |-> "plt.show"]>>
       ELSE calls' = calls
    /\ pc' = "returned"
    /\ UNCHANGED <<fn, fit_function, all_array, nat_array, data, thresh,
                   direction, bootstrap_ci, boot_size, rng_calls, fit_calls,
                   all_boot, nat_boot, boot, metrics, writes, fitted_params,
                   percentiles, ppf_calls, command, call_args, ret, error>>

NextPlot == PlotArea

SpecPlot == InitPlot /\ [][NextPlot]_vars

(***************************************************************************)
(* SpecScale: one direct call of correction.scaling(data, clim, idate,     *)
(* edate, method), correction.py lines 46-57.  clim holds one value per    *)
(* day, days numbered from 1; clim.sel(time=slice(idate, edate)) keeps the *)
(* days idate..edate, both ends included.  The mean of no value is nan.    *)
(***************************************************************************)
ClimValues == {0, 1, MaxVal}
Climatologies == UNION {[1..n -> ClimValues] : n \in 0..MaxLen}
Dates == 0..MaxLen
Methods == {"add", "mult", "invalid"}

RECURSIVE SeqSum(_)
SeqSum(a) == IF Len(a) = 0 THEN 0 ELSE a[1] + SeqSum(Tail(a))

sel_time(clim, idate, edate) ==
    SelectSeq([t \in 1..Len(clim) |-> <<t, clim[t]>>],
              LAMBDA e : idate <= e[1] /\ e[1] <= edate)

mean(selected) ==
    Frac(SeqSum([k \in 1..Len(selected) |-> selected[k][2]]), Len(selected))

scaled_data(d, clim_mean, method) ==
    IF method = "add"
    THEN [i \in 1..Len(d) |-> RSub(R(d[i]), clim_mean)]
    ELSE [i \in 1..Len(d) |-> RDiv(R(d[i]), clim_mean)]

InitScale ==
    /\ fn = "scaling"
    /\ fit_function = "uniform"
    /\ command = ""
    /\ call_args \in [clim : Climatologies, idate : Dates, edate : Dates,
                       method : Methods]
    /\ all_array = <<>>
    /\ nat_array = <<>>
    /\ data \in Samples
    /\ thresh = 0
    /\ direction = "ascending"
    /\ bootstrap_ci = PyInt(95)
    /\ boot_size = 0
    /\ fitted_params = <<>>
    /\ percentiles = <<>>
    /\ Fresh

Scaling ==
    /\ fn = "scaling" /\ pc = "entry"
    /\ IF ~validate_correction_method(call_args.method)
       THEN pc' = "raised" /\ error' = "ValueError" /\ UNCHANGED <<calls, ret>>
       ELSE /\ calls' = calls \o
                    <<[name |-> "clim.sel", idate |-> call_args.idate,
                       edate |-> call_args.edate],
                      [name |-> "mean"]>>
            /\ ret' = <<scaled_data(data,
                                    mean(sel_time(call_args.clim, call_args.idate,
                                                  call_args.edate)),
                                    call_args.method)>>
            /\ pc' = "returned" /\ error' = error
    /\ UNCHANGED <<fn, fit_function, all_array, nat_array, data, thresh,
                   direction, bootstrap_ci, boot_size, rng_calls, fit_calls,
                   all_boot, nat_boot, boot, metrics, writes, fitted_params,
                   percentiles, ppf_calls, command, call_args>>

NextScale == Scaling

SpecScale == InitScale /\ [][NextScale]_vars

(***************************************************************************)
(* SpecFrame: a caller that holds its sample arrays (kept in call_args)    *)
(* and calls _calc_bootstrap_ensemble, _calc_return_time_confidence or     *)
(* attribution_metrics on them several times in one interpreter.  Every    *)
(* call starts with new locals; the module has no global of its own, so    *)
(* the only thing a call leaves behind is the state of numpy's global      *)
(* generator, which rng_calls counts.                                      *)
(***************************************************************************)
MaxRng == 3

InitFrame ==
    /\ fn \in {"_calc_bootstrap_ensemble", "_calc_return_time_confidence",
               "attribution_metrics"}
    /\ fit_function = "uniform"
    /\ all_array \in Samples
    /\ nat_array \in Samples
    /\ data \in Samples
    /\ (fn = "attribution_metrics" => data = <<>>)
    /\ (fn # "attribution_metrics" => all_array = <<>> /\ nat_array = <<>>)
    /\ thresh \in Thresholds
    /\ direction \in Directions
    /\ bootstrap_ci \in {PyInt(95), PyInt(101)}
    /\ boot_size \in BootSizes
    /\ fitted_params = <<>>
    /\ percentiles = <<>>
    /\ command = ""
    /\ call_args = [data |-> data, all |-> all_array, nat |-> nat_array]
    /\ Fresh

CallAgain ==
    /\ pc \in {"returned", "raised"}
    /\ rng_calls < MaxRng
    /\ pc' = "entry"
    /\ fit_calls' = 0
    /\ all_boot' = <<>>
    /\ nat_boot' = <<>>
    /\ boot' = 0
    /\ metrics' = [m \in MetricNames |-> <<>>]
    /\ writes' = [m \in MetricNames |-> <<>>]
    /\ ret' = <<>>
    /\ error' = NoError
    /\ UNCHANGED <<fn, fit_function, all_array, nat_array, data, thresh,
                   direction, bootstrap_ci, boot_size, rng_calls, fitted_params,
                   percentiles, ppf_calls, command, call_args, calls>>

NextFrame == NextBoot \/ NextCI \/ Next \/ CallAgain

SpecFrame == InitFrame /\ [][NextFrame]_vars

(***************************************************************************)
(* SpecRpPlot: one direct call of _rp_plot_data(data, fit_function, color, *)
(* label, ax, direction, bootstrap_ci, boot_size), lines 203-262.  calls   *)
(* records what the call draws on ax, in order; the fitted line is         *)
(* recorded by the two ends and the number of points of its np.linspace.   *)
(* The ensemble drawn from data is kept in all_boot and the one drawn from *)
(* return_period in nat_boot.  rp_plot hands the function a sample it has  *)
(* sorted in the direction, lines 603-608; the tests hand it an ascending  *)
(* sample with either direction.                                           *)
(***************************************************************************)
rp_plot_sorted(a, dir) ==
    IF dir = "descending" THEN Reverse(SortRow(a)) ELSE SortRow(a)

SortedRowFloat(row, dir) ==
    IF dir = "descending" THEN Reverse(SortNum(row)) ELSE SortNum(row)

calc_bootstrap_ensemble_float(d, dir, size) ==
    LET n_samples == Len(d)
    IN [1..size -> {SortedRowFloat(row, dir) : row \in RowDraws(d, n_samples)}]

ColumnFloat(sample_store, i) ==
    [b \in 1..Len(sample_store) |-> sample_store[b][i]]

conf_inter_float(sample_store, n_samples, q) ==
    [k \in 1..2 |->
        [i \in 1..n_samples |-> np_percentile(ColumnFloat(sample_store, i), q[k])]]

\* ndarray.squeeze() of a row: a row of one value becomes a 0-d array
squeeze(row) == IF Len(row) = 1 THEN row[1] ELSE row

\* lines 226-238
fitted_line(params, dir) ==
    [name  |-> "semilogx",
     curve |-> IF dir = "descending" THEN "1 / sf" ELSE "1 / cdf",
     start |-> Ppf([q |-> <<Frac(1, 1000)>>, args |-> <<>>,
                    loc |-> params[1], scale |-> params[2]])[1],
     stop  |-> Ppf([q |-> <<Frac(991, 1000)>>, args |-> <<>>,
                    loc |-> params[1], scale |-> params[2]])[1],
     num   |-> 700]

\* line 215: the direction of the ensemble drawn from return_period
RP_DIRECTION == "descending"

InitRpPlot ==
    /\ fn = "_rp_plot_data"
    /\ fit_function = "uniform"
    /\ all_array = <<>>
    /\ nat_array = <<>>
    /\ data \in Samples
    /\ thresh = 0
    /\ direction \in Directions
    /\ bootstrap_ci \in {PyInt(90), PyInt(95), PyInt(101)}
    /\ boot_size \in BootSizes
    /\ fitted_params = <<>>
    /\ percentiles = <<>>
    /\ command = ""
    /\ call_args = <<>>
    /\ Fresh

RpPlotData_rp_directed ==
    /\ fn = "_rp_plot_data" /\ pc = "entry"
    /\ \E return_period \in {[i \in 1..Len(data) |->
                                 rp_calculation(data, data[i], direction)]} :
       IF ~validate_ci(bootstrap_ci)
       THEN /\ pc' = "raised" /\ error' = "ValueError"
            /\ fit_calls' = fit_calls + Len(data)
            /\ UNCHANGED <<rng_calls, all_boot, nat_boot, calls, ret>>
       ELSE \E q \in {get_percentiles_from_ci(bootstrap_ci)} :
            \E store_data \in calc_bootstrap_ensemble(data, direction, boot_size),
               store_rp \in calc_bootstrap_ensemble_float(return_period,
                                                          direction, boot_size) :
            \E conf_data \in {conf_inter(store_data, Len(data), q)},
               conf_rp \in {conf_inter_float(store_rp, Len(data), q)} :
            /\ rng_calls' = rng_calls + 2
            /\ all_boot' = store_data
            /\ nat_boot' = store_rp
            /\ fit_calls' = fit_calls + Len(data) + 1
            /\ IF FitRaises(data)
               THEN /\ calls' = calls \o
                        <<[name |-> "semilogx", x |-> return_period, y |-> data]>>
                    /\ pc' = "raised" /\ error' = "FitError" /\ ret' = ret
               ELSE /\ calls' = calls \o
                        <<[name |-> "semilogx", x |-> return_period, y |-> data],
                          fitted_line(Fit(data), direction),
                          [name |-> "fill_between", x |-> return_period,
                           y1 |-> squeeze(conf_data[1]),
                           y2 |-> squeeze(conf_data[2])],
                          [name |-> "semilogx",
                           x |-> <<return_period, return_period>>,
                           y |-> <<squeeze(conf_data[1]), squeeze(conf_data[2])>>],
                          [name |-> "semilogx",
                           x |-> <<squeeze(conf_rp[1]), squeeze(conf_rp[2])>>,
                           y |-> <<data, data>>]>>
                    /\ ret' = <<(<<squeeze(conf_rp[1]), squeeze(conf_rp[2])>>)>>
                    /\ pc' = "returned" /\ error' = error
    /\ UNCHANGED <<fn, fit_function, all_array, nat_array, data, thresh,
                   direction, bootstrap_ci, boot_size, boot, metrics, writes,
                   fitted_params, percentiles, ppf_calls, command, call_args>>

RpPlotData ==
    /\ fn = "_rp_plot_data" /\ pc = "entry"
    /\ \E return_period \in {[i \in 1..Len(data) |->
                                 rp_calculation(data, data[i], direction)]} :
       IF ~validate_ci(bootstrap_ci)
       THEN /\ pc' = "raised" /\ error' = "ValueError"
            /\ fit_calls' = fit_calls + Len(data)
            /\ UNCHANGED <<rng_calls, all_boot, nat_boot, calls, ret>>
       ELSE \E q \in {get_percentiles_from_ci(bootstrap_ci)} :
            \E store_data \in calc_bootstrap_ensemble(data, direction, boot_size),
               store_rp \in calc_bootstrap_ensemble_float(return_period,
                                                          RP_DIRECTION, boot_size) :
            \E conf_data \in {conf_inter(store_data, Len(data), q)},
               conf_rp \in {conf_inter_float(store_rp, Len(data), q)} :
            /\ rng_calls' = rng_calls + 2
            /\ all_boot' = store_data
            /\ nat_boot' = store_rp
            /\ fit_calls' = fit_calls + Len(data) + 1
            /\ IF FitRaises(data)
               THEN /\ calls' = calls \o
                        <<[name |-> "semilogx", x |-> return_period, y |-> data]>>
                    /\ pc' = "raised" /\ error' = "FitError" /\ ret' = ret
               ELSE /\ calls' = calls \o
                        <<[name |-> "semilogx", x |-> return_period, y |-> data],
                          fitted_line(Fit(data), direction),
                          [name |-> "fill_between", x |-> return_period,
                           y1 |-> squeeze(conf_data[1]),
                           y2 |-> squeeze(conf_data[2])],
                          [name |-> "semilogx",
                           x |-> <<return_period, return_period>>,
                           y |-> <<squeeze(conf_data[1]), squeeze(conf_data[2])>>],
                          [name |-> "semilogx",
                           x |-> <<squeeze(conf_rp[1]), squeeze(conf_rp[2])>>,
                           y |-> <<data, data>>]>>
                    /\ ret' = <<(<<squeeze(conf_rp[1]), squeeze(conf_rp[2])>>)>>
                    /\ pc' = "returned" /\ error' = error
    /\ UNCHANGED <<fn, fit_function, all_array, nat_array, data, thresh,
                   direction, bootstrap_ci, boot_size, boot, metrics, writes,
                   fitted_params, percentiles, ppf_calls, command, call_args>>

NextRpPlot == RpPlotData

SpecRpPlot == InitRpPlot /\ [][NextRpPlot]_vars

(***************************************************************************)
(* SpecNearest: one direct call of utils.find_nearest(value, data),        *)
(* utils.py line 156.  value is held in call_args.  argmin returns the     *)
(* index (from 0) of the first occurrence of the minimum and raises        *)
(* ValueError on an empty array.                                           *)
(***************************************************************************)
RAbs(a) == <<Abs(a[1]), a[2]>>

argmin_last(a) ==
    (CHOOSE i \in 1..Len(a) :
        /\ \A j \in 1..Len(a) : ~RLess(a[j], a[i])
        /\ \A j \in (i + 1)..Len(a) : RLess(a[i], a[j])) - 1

argmin(a) ==
    (CHOOSE i \in 1..Len(a) :
        /\ \A j \in 1..Len(a) : ~RLess(a[j], a[i])
        /\ \A j \in 1..(i - 1) : RLess(a[i], a[j])) - 1

find_nearest(value, d) ==
    argmin([i \in 1..Len(d) |-> RAbs(RSub(R(d[i]), value))])

NearestArrays == Samples \cup {<<1, 3, 5, 7, 9>>}
NearestValues == {Frac(k, 2) : k \in 0..(2 * MaxVal + 2)} \cup {R(6)}

InitNearest ==
    /\ fn = "find_nearest"
    /\ fit_function = "uniform"
    /\ command = ""
    /\ call_args \in [value : NearestValues]
    /\ all_array = <<>>
    /\ nat_array = <<>>
    /\ data \in NearestArrays
    /\ thresh = 0
    /\ direction = "ascending"
    /\ bootstrap_ci = PyInt(95)
    /\ boot_size = 0
    /\ fitted_params = <<>>
    /\ percentiles = <<>>
    /\ Fresh

FindNearest ==
    /\ fn = "find_nearest" /\ pc = "entry"
    /\ IF Len(data) = 0
       THEN pc' = "raised" /\ error' = "ValueError" /\ ret' = ret
       ELSE /\ ret' = <<find_nearest(call_args.value, data)>>
            /\ pc' = "returned" /\ error' = error
    /\ UNCHANGED <<fn, fit_function, all_array, nat_array, data, thresh,
                   direction, bootstrap_ci, boot_size, rng_calls, fit_calls,
                   all_boot, nat_boot, boot, metrics, writes, fitted_params,
                   percentiles, ppf_calls, command, call_args, calls>>

NextNearest == FindNearest

SpecNearest == InitNearest /\ [][NextNearest]_vars

(***************************************************************************)
(* SpecUtil: one direct call of validate_ci(value), validate_direction(    *)
(* value) or get_percentiles_from_ci(cofidence_interval).  The value of    *)
(* validate_ci and get_percentiles_from_ci is held in bootstrap_ci, the    *)
(* value of validate_direction in direction.                               *)
(***************************************************************************)
CIValues ==
    {PyInt(n) : n \in (0 - 2)..102}
        \cup {PyBool(TRUE), PyBool(FALSE), PyFloat10(505), PyFloat10(500), PyStr(50)}

\* "123" stands for the int 123, which like the str '123' equals neither
\* accepted string.
DirectionValues ==
    {"ascending", "descending", "up", "down", "ascend", "descend", "Ascending",
     "DESCENDING", "ascending ", "", "123"}

InitUtil ==
    /\ fn \in {"validate_ci", "validate_direction", "get_percentiles_from_ci"}
    /\ fit_function = "uniform"
    /\ all_array = <<>>
    /\ nat_array = <<>>
    /\ data = <<>>
    /\ thresh = 0
    /\ direction \in DirectionValues
    /\ (fn # "validate_direction" => direction = "ascending")
    /\ bootstrap_ci \in CIValues
    /\ (fn = "validate_direction" => bootstrap_ci = PyInt(95))
    /\ boot_size = 0
    /\ fitted_params = <<>>
    /\ percentiles = <<>>
    /\ command = ""
    /\ call_args = <<>>
    /\ Fresh

\* validator.py lines 26-27
ValidateCi ==
    /\ fn = "validate_ci" /\ pc = "entry"
    /\ IF validate_ci(bootstrap_ci)
       THEN pc' = "returned" /\ error' = error
       ELSE pc' = "raised" /\ error' = "ValueError"
    /\ UNCHANGED <<fitted_params, percentiles, ppf_calls, command, call_args, calls>>
    /\ UNCHANGED <<fn, fit_function, all_array, nat_array, data, thresh, direction,
                   bootstrap_ci, boot_size, rng_calls, fit_calls, all_boot,
                   nat_boot, boot, metrics, writes, ret>>

\* validator.py lines 53-54
ValidateDirection ==
    /\ fn = "validate_direction" /\ pc = "entry"
    /\ IF validate_direction(direction)
       THEN pc' = "returned" /\ error' = error
       ELSE pc' = "raised" /\ error' = "ValueError"
    /\ UNCHANGED <<fitted_params, percentiles, ppf_calls, command, call_args, calls>>
    /\ UNCHANGED <<fn, fit_function, all_array, nat_array, data, thresh, direction,
                   bootstrap_ci, boot_size, rng_calls, fit_calls, all_boot,
                   nat_boot, boot, metrics, writes, ret>>

\* utils.py lines 181-186
GetPercentilesFromCi ==
    /\ fn = "get_percentiles_from_ci" /\ pc = "entry"
    /\ IF validate_ci(bootstrap_ci)
       THEN /\ ret' = <<get_percentiles_from_ci(bootstrap_ci)>>
            /\ pc' = "returned" /\ error' = error
       ELSE pc' = "raised" /\ error' = "ValueError" /\ ret' = ret
    /\ UNCHANGED <<fitted_params, percentiles, ppf_calls, command, call_args, calls>>
    /\ UNCHANGED <<fn, fit_function, all_array, nat_array, data, thresh, direction,
                   bootstrap_ci, boot_size, rng_calls, fit_calls, all_boot,
                   nat_boot, boot, metrics, writes>>

NextUtil == ValidateCi \/ ValidateDirection \/ GetPercentilesFromCi

SpecUtil == InitUtil /\ [][NextUtil]_vars

(***************************************************************************)
(* Properties.                                                             *)
(***************************************************************************)

\* C1: a call of attribution_metrics whose direction is neither 'ascending'
\* nor 'descending' raises ValueError with no draw taken from the random
\* generator, no fit made and no table returned.
C1_InvalidDirectionRaisesFirst ==
    (fn = "attribution_metrics" /\ direction \notin {"ascending", "descending"}) =>
        /\ rng_calls = 0
        /\ fit_calls = 0
        /\ ret = <<>>
        /\ pc \in {"entry", "raised"}
        /\ (pc = "raised" => error = "ValueError")

C1_Witness ==
    /\ fn = "attribution_metrics" /\ pc = "raised" /\ error = "ValueError"
    /\ direction = "up" /\ boot_size > 0 /\ Len(all_array) > 0
    /\ rng_calls = 0 /\ fit_calls = 0

\* C2: a call of attribution_metrics with a valid direction and an invalid
\* confidence level (0, 101, 50.5) has taken no draw from the random
\* generator and made no fit, at any point of the call.
C2_InvalidCIRaisesBeforeResampling ==
    (/\ fn = "attribution_metrics"
     /\ direction \in {"ascending", "descending"}
     /\ bootstrap_ci \in {PyInt(0), PyInt(101), PyFloat10(505)}) =>
        rng_calls = 0 /\ fit_calls = 0

\* C3: _calc_bootstrap_ensemble returns, without raising, exactly boot_size
\* rows of exactly len(data) values each, also for an empty sample and for
\* boot_size = 0.
C3_EnsembleShape ==
    (fn = "_calc_bootstrap_ensemble" /\ pc # "entry") =>
        /\ pc = "returned" /\ error = NoError
        /\ Len(ret[1]) = boot_size
        /\ \A i \in 1..boot_size : Len(ret[1][i]) = Len(data)

C3_Witness ==
    /\ fn = "_calc_bootstrap_ensemble" /\ pc = "returned"
    /\ data = <<>> /\ boot_size = MaxBoot
    /\ ret = <<[i \in 1..MaxBoot |-> <<>>]>>

\* C4: every row returned by _calc_bootstrap_ensemble is non-decreasing when
\* direction is 'ascending' and non-increasing when it is 'descending'.
C4_RowsSorted ==
    (fn = "_calc_bootstrap_ensemble" /\ pc = "returned") =>
        \A i \in 1..Len(ret[1]) : \A j \in 1..(Len(ret[1][i]) - 1) :
            /\ direction = "ascending" => ret[1][i][j] <= ret[1][i][j + 1]
            /\ direction = "descending" => ret[1][i][j] >= ret[1][i][j + 1]

C4_Witness ==
    /\ fn = "_calc_bootstrap_ensemble" /\ pc = "returned"
    /\ direction = "descending" /\ data = <<1, 3>>
    /\ boot_size > 0 /\ ret[1][1] = <<3, 1>>

\* C5: every value of every row returned by _calc_bootstrap_ensemble is a
\* value of the input sample.
C5_ValuesFromSample ==
    (fn = "_calc_bootstrap_ensemble" /\ pc = "returned") =>
        \A i \in 1..Len(ret[1]) : \A j \in 1..Len(ret[1][i]) :
            \E k \in 1..Len(data) : ret[1][i][j] = data[k]

C5_Witness ==
    /\ fn = "_calc_bootstrap_ensemble" /\ pc = "returned"
    /\ data = <<2, 1>> /\ boot_size = MaxBoot
    /\ ret[1][1] = <<2, 2>> /\ ret[1][MaxBoot] = <<2, 2>>

\* C6: _pr_calculation makes one fit on the ALL sample and one on the NAT
\* sample and returns sf(thresh, all) / sf(thresh, nat) for 'descending' and
\* cdf(thresh, all) / cdf(thresh, nat) for every other direction.
C6_ProbabilityRatio ==
    (fn = "_pr_calculation" /\ pc = "returned") =>
        /\ fit_calls = 2
        /\ direction = "descending" =>
              ret[1] = RDiv(Sf(thresh, Fit(all_array)), Sf(thresh, Fit(nat_array)))
        /\ direction # "descending" =>
              ret[1] = RDiv(Cdf(thresh, Fit(all_array)), Cdf(thresh, Fit(nat_array)))

C6_Witness ==
    /\ fn = "_pr_calculation" /\ pc = "returned" /\ direction = "up"
    /\ all_array = <<3, 1>> /\ nat_array = <<1, 2>> /\ thresh = 2
    /\ ret = <<Frac(3, 4)>>

\* C7: _rp_calculation returns 1 / sf(thresh, fit(data)) for 'descending' and
\* 1 / cdf(thresh, fit(data)) for 'ascending'.
C7_ReturnPeriod ==
    (fn = "_rp_calculation" /\ pc = "returned") =>
        /\ direction = "descending" => ret[1] = RDiv(R(1), Sf(thresh, Fit(data)))
        /\ direction = "ascending" => ret[1] = RDiv(R(1), Cdf(thresh, Fit(data)))

C7_Witness ==
    /\ fn = "_rp_calculation" /\ pc = "returned" /\ direction = "ascending"
    /\ data = <<3, 2>> /\ thresh = 2 /\ ret = <<R(3)>>

\* C8: whenever the descending probability ratio of the two samples is
\* finite and not zero, _far_calculation returns exactly
\* 1 - 1 / _pr_calculation(all, nat, dist, thresh, 'descending').
C8_FarFromDescendingPr ==
    (fn = "_far_calculation" /\ pc = "returned") =>
        LET pr == pr_calculation(all_array, nat_array, thresh, "descending")
        IN (IsFinite(pr) /\ pr # R(0)) =>
              ret[1] = RSub(R(1), RDiv(R(1), pr))

C8_Witness ==
    /\ fn = "_far_calculation" /\ pc = "returned"
    /\ all_array = <<1, 3>> /\ nat_array = <<1, 2>> /\ thresh = 2
    /\ ret = <<Frac(1, 3)>>

\* C9: the table returned by attribution_metrics has exactly the rows PR,
\* FAR, RP_ALL, RP_NAT and the columns value, ci_inf, ci_sup; each value is
\* the median of the boot_size per-trial values of its metric, and ci_inf
\* and ci_sup are their percentiles at (100 - bootstrap_ci) / 2 and
\* 100 - (100 - bootstrap_ci) / 2.
C9_ResultTable ==
    (fn = "attribution_metrics" /\ pc = "returned") =>
        LET table == ret[1]
            c == Frac(bootstrap_ci.x10, 10)
            q_inf == RDiv(RSub(R(100), c), R(2))
            q_sup == RSub(R(100), RDiv(RSub(R(100), c), R(2)))
        IN /\ DOMAIN table = {"PR", "FAR", "RP_ALL", "RP_NAT"}
           /\ \A m \in DOMAIN table :
                 /\ DOMAIN table[m] = {"value", "ci_inf", "ci_sup"}
                 /\ Len(metrics[m]) = boot_size
                 /\ table[m].value = np_median(metrics[m])
                 /\ table[m].ci_inf = np_percentile(metrics[m], q_inf)
                 /\ table[m].ci_sup = np_percentile(metrics[m], q_sup)

C9_Witness ==
    /\ fn = "attribution_metrics" /\ pc = "returned" /\ boot_size = MaxBoot
    /\ IsFinite(ret[1]["PR"].ci_inf) /\ IsFinite(ret[1]["PR"].ci_sup)
    /\ RLess(ret[1]["PR"].ci_inf, ret[1]["PR"].value)
    /\ RLess(ret[1]["PR"].value, ret[1]["PR"].ci_sup)

\* C10: once both ensembles exist, every slot of every metric has been
\* written exactly once if its trial has run and never otherwise, and the
\* values recorded for trial i are the ones any other run records for trial
\* i when its ensembles have the same row i, whatever their other rows are.
C10_TrialIndependence ==
    (fn = "attribution_metrics" /\ pc \in {"loop", "returned"}) =>
        /\ pc = "returned" => boot = boot_size
        /\ \A i \in 1..boot_size : \A m \in MetricNames :
              writes[m][i] = (IF i <= boot THEN 1 ELSE 0)
        /\ \A i \in 1..boot :
              \A row_all \in {all_boot[i]}, row_nat \in {nat_boot[i]} :
              \A recorded \in {[m \in MetricNames |-> metrics[m][i]]} :
              \A ab \in {e \in calc_bootstrap_ensemble(all_array, "ascending", boot_size) :
                             e[i] = row_all} :
              \A nb \in {e \in calc_bootstrap_ensemble(nat_array, "ascending", boot_size) :
                             e[i] = row_nat} :
                 trial_metrics(ab, nb, i - 1, thresh, direction) = recorded

C10_Witness ==
    /\ fn = "attribution_metrics" /\ pc = "returned" /\ boot = 2
    /\ all_boot[1] # all_boot[2] /\ nat_boot[1] # nat_boot[2]
    /\ metrics["PR"][1] # metrics["PR"][2]
    /\ metrics["RP_ALL"][1] # metrics["RP_ALL"][2]


\* C11: when fit_function.fit raises in a trial of attribution_metrics the
\* call ends with that error: no table is returned, the trials before it
\* were all computed, the failed trial is not stepped over, and no slot of a
\* later trial is written nor any later fit made.
C11_FitErrorPropagates ==
    fn = "attribution_metrics" =>
        /\ error = "FitError" =>
               /\ pc = "raised" /\ ret = <<>>
               /\ boot < boot_size
               /\ trial_raises(all_boot, nat_boot, boot)
               /\ fit_calls = 6 * boot + pr_fits(all_boot[boot + 1], nat_boot[boot + 1])
               /\ \A m \in MetricNames :
                      /\ \A i \in 1..boot : writes[m][i] = 1
                      /\ \A i \in (boot + 1)..boot_size :
                             writes[m][i] = 0 /\ metrics[m][i] = R(0)
        /\ pc \in {"loop", "returned"} =>
               \A i \in 0..(boot - 1) : ~trial_raises(all_boot, nat_boot, i)
        /\ pc = "returned" => boot = boot_size

C11_Witness ==
    /\ fn = "attribution_metrics" /\ fit_function = "uniform_strict"
    /\ pc = "raised" /\ error = "FitError"
    /\ boot_size = 2 /\ boot = 1
    /\ Len(all_array) > 0 /\ Len(nat_array) > 0
    /\ writes["PR"] = <<1, 0>>
\* C12: whenever the fit of _rp_calculation succeeds and the fitted sf
\* (descending) or cdf (otherwise) is 0 at the threshold, the call returns
\* +infinity and does not raise, whichever distribution object was handed in.
C12_ZeroTailReturnsInfinity ==
    (/\ fn = "_rp_calculation" /\ pc # "entry"
     /\ ~rp_raises(data)
     /\ (IF direction = "descending" THEN Sf(thresh, Fit(data))
                                     ELSE Cdf(thresh, Fit(data))) = R(0))
    => (pc = "returned" /\ error = NoError /\ ret = <<Inf>>)
\* C13: for every valid confidence level c (an int with 0 < c <= 100)
\* get_percentiles_from_ci(c) returns the pair (ci_inf, ci_sup) with
\* ci_inf = (100 - c) / 2 and ci_sup = 100 - ci_inf; 95 gives (2.5, 97.5)
\* and 90 gives (5.0, 95.0).
C13_PercentilesFromCi ==
    (fn = "get_percentiles_from_ci" /\ pc # "entry" /\ bootstrap_ci.type = "int"
       /\ 0 < bootstrap_ci.x10 /\ bootstrap_ci.x10 <= 1000) =>
        /\ pc = "returned" /\ error = NoError /\ Len(ret) = 1
        /\ LET c == Frac(bootstrap_ci.x10, 10)
               ci_inf == ret[1][1]
               ci_sup == ret[1][2]
           IN /\ Len(ret[1]) = 2
              /\ RAdd(RMul(R(2), ci_inf), c) = R(100)
              /\ RAdd(ci_inf, ci_sup) = R(100)
              /\ (bootstrap_ci = PyInt(95) => ret[1] = <<Frac(5, 2), Frac(195, 2)>>)
              /\ (bootstrap_ci = PyInt(90) => ret[1] = <<R(5), R(95)>>)

C13_Witness ==
    /\ fn = "get_percentiles_from_ci" /\ pc = "returned"
    /\ bootstrap_ci = PyInt(95) /\ ret = <<<<Frac(5, 2), Frac(195, 2)>>>>
\* C14: validate_ci, and get_percentiles_from_ci through it, raises
\* ValueError exactly when the value is not an int (bool, a subclass of int,
\* included) with 0 < value <= 100: 1, 50 and 100 are accepted, 0, 101, '50'
\* and 50.5 are rejected, and a rejected value yields no percentile pair.
C14_ValidateCi ==
    (fn \in {"validate_ci", "get_percentiles_from_ci"} /\ pc # "entry") =>
        LET is_int == bootstrap_ci.type \in {"int", "bool"}
            in_range == 0 < bootstrap_ci.x10 /\ bootstrap_ci.x10 <= 1000
        IN /\ pc = "raised" <=> ~(is_int /\ in_range)
           /\ pc = "returned" <=> (is_int /\ in_range)
           /\ pc = "raised" => (error = "ValueError" /\ ret = <<>>)
           /\ pc = "returned" => error = NoError
           /\ bootstrap_ci \in {PyInt(1), PyInt(50), PyInt(100)} => pc = "returned"
           /\ bootstrap_ci \in {PyInt(0), PyInt(101), PyStr(50), PyFloat10(505)}
                 => pc = "raised"

C14_Witness ==
    /\ fn = "get_percentiles_from_ci" /\ bootstrap_ci = PyFloat10(505)
    /\ pc = "raised" /\ error = "ValueError" /\ ret = <<>>

\* C15: validate_direction raises ValueError for every value other than the
\* exact strings 'ascending' and 'descending' ('up', 'down', 'ascend' and
\* the int 123 among them) and returns without error for those two.
C15_ValidateDirection ==
    (fn = "validate_direction" /\ pc # "entry") =>
        /\ direction \in {"ascending", "descending"} =>
               (pc = "returned" /\ error = NoError)
        /\ direction \notin {"ascending", "descending"} =>
               (pc = "raised" /\ error = "ValueError")
        /\ direction \in {"up", "down", "ascend", "123"} => pc = "raised"

C15_Witness ==
    /\ fn = "validate_direction" /\ direction = "ascend"
    /\ pc = "raised" /\ error = "ValueError"
C17_IdenticalSample ==
    (/\ fn = "_calc_return_time_confidence" /\ pc = "returned" /\ boot_size > 0
     /\ \A i, j \in 1..Len(data) : data[i] = data[j]) =>
        /\ Len(all_boot) = boot_size
        /\ \A b \in 1..boot_size :
               /\ Len(all_boot[b]) = Len(data)
               /\ \A i \in 1..Len(data) : all_boot[b][i] = data[1]
        /\ Len(ret[1][1]) = Len(data) /\ Len(ret[1][2]) = Len(data)
        /\ \A i \in 1..Len(data) :
               ret[1][1][i] = R(data[1]) /\ ret[1][2][i] = R(data[1])

C17_Witness ==
    /\ fn = "_calc_return_time_confidence" /\ pc = "returned"
    /\ data = <<2, 2>> /\ boot_size = 2 /\ bootstrap_ci = PyInt(95)
    /\ ret = <<(<<(<<R(2), R(2)>>), (<<R(2), R(2)>>)>>)>>
\* C18: in the table returned by attribution_metrics after at least one
\* trial, ci_inf <= ci_sup holds for each of PR, FAR, RP_ALL and RP_NAT
\* whose per-trial values are all finite, whatever the valid confidence
\* level.
C18_BoundsOrdered ==
    (fn = "attribution_metrics" /\ pc = "returned" /\ boot_size > 0) =>
        \A m \in MetricNames :
            (\A i \in 1..boot_size : IsFinite(metrics[m][i])) =>
                /\ IsFinite(ret[1][m].ci_inf) /\ IsFinite(ret[1][m].ci_sup)
                /\ RLeq(ret[1][m].ci_inf, ret[1][m].ci_sup)

C18_Witness ==
    /\ fn = "attribution_metrics" /\ pc = "returned" /\ boot_size = 2
    /\ bootstrap_ci = PyInt(95)
    /\ \A m \in MetricNames :
           /\ \A i \in 1..boot_size : IsFinite(metrics[m][i])
           /\ RLess(ret[1][m].ci_inf, ret[1][m].ci_sup)
C20_FittedPercentilesByArity ==
    (fn = "get_fitted_percentiles" /\ pc # "entry") =>
        LET q == [i \in 1..Len(percentiles) |-> Frac(percentiles[i], 100)]
        IN /\ Len(fitted_params) = 2 =>
                  /\ pc = "returned" /\ error = NoError
                  /\ ppf_calls = <<[q |-> q, args |-> <<>>,
                                    loc |-> fitted_params[1], scale |-> fitted_params[2]]>>
                  /\ Len(ret) = 1 /\ Len(ret[1]) = Len(percentiles)
           /\ Len(fitted_params) = 3 =>
                  /\ pc = "returned" /\ error = NoError
                  /\ ppf_calls = <<[q |-> q, args |-> <<fitted_params[1]>>,
                                    loc |-> fitted_params[2], scale |-> fitted_params[3]]>>
                  /\ Len(ret) = 1 /\ Len(ret[1]) = Len(percentiles)
           /\ Len(fitted_params) \notin {2, 3} =>
                  /\ pc = "raised" /\ error = "ValueError"
                  /\ ppf_calls = <<>> /\ ret = <<>>

C20_Witness ==
    /\ fn = "get_fitted_percentiles" /\ pc = "returned"
    /\ fitted_params = <<2, 1, 3>> /\ percentiles = <<50, 100>>
    /\ Len(ppf_calls) = 1
    /\ ppf_calls[1].args = <<2>> /\ ppf_calls[1].loc = 1 /\ ppf_calls[1].scale = 3
    /\ ret = <<(<<R(1), Frac(5, 2)>>)>>
\* C21: a call of attribution_metrics in which the distribution's fit
\* returns a parameter tuple whose length is not 2 or 3 ends with an error
\* and returns no table: a table is returned only when every fit made gave
\* two or three parameters.
C21_ArityAborts ==
    (fn = "attribution_metrics" /\ pc = "returned") =>
        \A b \in 1..boot_size :
            /\ Len(Fit(all_boot[b])) \in {2, 3}
            /\ Len(Fit(nat_boot[b])) \in {2, 3}
\* C22: the attr-metrics command passes the value of the --direction flag
\* as the direction argument of attribution_metrics, so that the table
\* written to the output file holds metrics computed in the direction the
\* user selected.
C22_CliPassesDirection ==
    (command = "attr-metrics" /\ fn = "method_attribution_metrics"
       /\ pc = "returned") =>
        /\ direction = call_args.direction
        /\ Len(calls) = 1 /\ calls[1].name = "to_csv"
        /\ \A i \in 1..boot_size :
               metrics["PR"][i] =
                   pr_calculation(all_boot[i], nat_boot[i], thresh, call_args.direction)
\* C23: _plot_area raises ValueError whenever spatial_sel is neither 'mask'
\* nor 'box' (for example 'invalid' or None), and plots without raising when
\* it is 'mask' or 'box'.
C23_PlotAreaRejectsOtherSelections ==
    (fn = "_plot_area" /\ pc # "entry") =>
        IF call_args.spatial_sel \in {"mask", "box"}
        THEN pc = "returned" /\ error = NoError /\ Len(calls) = 3
        ELSE pc = "raised" /\ error = "ValueError" /\ calls = <<>>
\* C24: scaling with method 'add' returns data minus the mean of the
\* climatology over [idate, edate], with method 'mult' returns data divided
\* by that mean, and with any other method raises ValueError before the
\* climatology is sliced or its mean computed.
C24_Scaling ==
    (fn = "scaling" /\ pc # "entry") =>
        LET clim == call_args.clim
            days == {t \in 1..Len(clim) : call_args.idate <= t /\ t <= call_args.edate}
            total == SeqSum([t \in 1..Len(clim) |-> IF t \in days THEN clim[t] ELSE 0])
            clim_mean == Frac(total, Cardinality(days))
        IN /\ call_args.method = "add" =>
                  /\ pc = "returned" /\ error = NoError
                  /\ ret = <<[i \in 1..Len(data) |-> RSub(R(data[i]), clim_mean)]>>
           /\ call_args.method = "mult" =>
                  /\ pc = "returned" /\ error = NoError
                  /\ ret = <<[i \in 1..Len(data) |-> RDiv(R(data[i]), clim_mean)]>>
           /\ call_args.method \notin {"add", "mult"} =>
                  /\ pc = "raised" /\ error = "ValueError"
                  /\ calls = <<>> /\ ret = <<>>

C24_Witness ==
    /\ fn = "scaling" /\ pc = "returned"
    /\ call_args = [clim |-> <<1, MaxVal>>, idate |-> 1, edate |-> 2, method |-> "mult"]
    /\ data = <<1, 2>>
    /\ ret = <<(<<Frac(2, 1 + MaxVal), Frac(4, 1 + MaxVal)>>)>>
\* C25: find_nearest(value, data) returns an index i such that
\* |data[i] - value| is minimal over the whole array, and when several
\* positions are equally near it returns the smallest such index (value 6 in
\* [1, 3, 5, 7, 9] gives index 2).
C25_FindNearest ==
    (fn = "find_nearest" /\ pc # "entry" /\ Len(data) > 0) =>
        /\ pc = "returned" /\ error = NoError /\ Len(ret) = 1
        /\ ret[1] \in 0..(Len(data) - 1)
        /\ LET dist(j) == RAbs(RSub(R(data[j + 1]), call_args.value))
           IN /\ \A j \in 0..(Len(data) - 1) : RLeq(dist(ret[1]), dist(j))
              /\ \A j \in 0..(ret[1] - 1) : RLess(dist(ret[1]), dist(j))
        /\ (data = <<1, 3, 5, 7, 9>> /\ call_args.value = R(6)) => ret = <<2>>

C25_Witness ==
    /\ fn = "find_nearest" /\ pc = "returned"
    /\ data = <<1, 3, 5, 7, 9>> /\ call_args.value = R(6) /\ ret = <<2>>
\* C26: in every trial i of attribution_metrics, FAR[i] is
\* 1 - 1 / (sf(thresh, fit(all row i)) / sf(thresh, fit(nat row i)))
\* whatever the direction, so it is 1 - 1 / PR[i] when the direction is
\* 'descending', and with 'ascending' it is the value a 'descending' call
\* records for the same rows.
C26_FarIgnoresDirection ==
    (fn = "attribution_metrics") =>
        \A i \in 1..boot :
            \E sf_all \in {Sf(thresh, Fit(all_boot[i]))},
               sf_nat \in {Sf(thresh, Fit(nat_boot[i]))} :
               /\ metrics["FAR"][i] =
                     RSub(R(1), RDiv(R(1), RDiv(sf_all, sf_nat)))
               /\ direction = "descending" =>
                     metrics["FAR"][i] = RSub(R(1), RDiv(R(1), metrics["PR"][i]))

C26_Witness ==
    /\ fn = "attribution_metrics" /\ pc = "returned" /\ direction = "ascending"
    /\ boot >= 1 /\ all_boot[1] = <<1, 3>> /\ nat_boot[1] = <<1, 2>> /\ thresh = 2
    /\ metrics["PR"][1] = Frac(3, 4)
    /\ metrics["FAR"][1] = Frac(1, 3)
    /\ metrics["FAR"][1] # RSub(R(1), RDiv(R(1), metrics["PR"][1]))

\* C27: attribution_metrics does not pass direction to the resampler: for
\* both directions every row of the ALL and NAT ensembles is sorted
\* ascending, and direction only selects sf (descending) or cdf (ascending)
\* in PR, RP_ALL and RP_NAT.
C27_EnsemblesAscending ==
    (fn = "attribution_metrics") =>
        /\ \A e \in {all_boot, nat_boot} : \A i \in 1..Len(e) :
              \A j \in 1..(Len(e[i]) - 1) : e[i][j] <= e[i][j + 1]
        /\ \A i \in 1..boot :
              \E p_all \in {Fit(all_boot[i])}, p_nat \in {Fit(nat_boot[i])} :
              \E t_all \in {IF direction = "descending" THEN Sf(thresh, p_all)
                                                         ELSE Cdf(thresh, p_all)},
                 t_nat \in {IF direction = "descending" THEN Sf(thresh, p_nat)
                                                         ELSE Cdf(thresh, p_nat)} :
                 /\ metrics["PR"][i] = RDiv(t_all, t_nat)
                 /\ metrics["RP_ALL"][i] = RDiv(R(1), t_all)
                 /\ metrics["RP_NAT"][i] = RDiv(R(1), t_nat)

C27_Witness ==
    /\ fn = "attribution_metrics" /\ pc = "returned" /\ direction = "descending"
    /\ boot >= 1 /\ all_boot[1] = <<1, 3>> /\ nat_boot[1] = <<1, 2>> /\ thresh = 2
    /\ metrics["PR"][1] = Frac(3, 2)
    /\ metrics["RP_ALL"][1] = R(2)
    /\ metrics["RP_NAT"][1] = R(3)
\* C28: _calc_bootstrap_ensemble, _calc_return_time_confidence and
\* attribution_metrics leave the caller's sample arrays as they were (the
\* sort and the reversal act on the drawn ensemble only), and a later call
\* starts from nothing of an earlier one but the generator's state.
C28_InputsUntouched ==
    (fn \in {"_calc_bootstrap_ensemble", "_calc_return_time_confidence",
             "attribution_metrics"}) =>
        /\ data = call_args.data
        /\ all_array = call_args.all
        /\ nat_array = call_args.nat
        /\ pc = "entry" =>
              /\ all_boot = <<>> /\ nat_boot = <<>> /\ boot = 0
              /\ metrics = [m \in MetricNames |-> <<>>]
              /\ writes = [m \in MetricNames |-> <<>>]
              /\ fit_calls = 0 /\ ret = <<>> /\ error = NoError

C28_Witness ==
    /\ fn = "_calc_return_time_confidence" /\ pc = "returned" /\ rng_calls = 2
    /\ direction = "descending" /\ boot_size >= 1
    /\ data = <<1, 3>> /\ call_args.data = <<1, 3>>
    /\ all_boot[1] = <<3, 1>>
\* C29: each of the two arrays returned by _calc_return_time_confidence is
\* ordered across positions in the ensemble's direction: with 'ascending'
\* lower[i] <= lower[i+1] and upper[i] <= upper[i+1], with 'descending'
\* both are non-increasing (for an ensemble of at least one row).
C29_BoundsOrdered ==
    (fn = "_calc_return_time_confidence" /\ pc = "returned" /\ boot_size >= 1) =>
        \A k \in 1..2 : \A i \in 1..(Len(ret[1][k]) - 1) :
            /\ direction = "ascending" => RLeq(ret[1][k][i], ret[1][k][i + 1])
            /\ direction = "descending" => RLeq(ret[1][k][i + 1], ret[1][k][i])

C29_Witness ==
    /\ fn = "_calc_return_time_confidence" /\ pc = "returned"
    /\ direction = "descending" /\ boot_size = MaxBoot /\ data = <<1, 3>>
    /\ all_boot[1] = <<3, 1>> /\ all_boot[MaxBoot] = <<1, 1>>
    /\ RLess(ret[1][1][2], ret[1][1][1])
    /\ RLess(ret[1][2][2], ret[1][2][1])
\* C30: in _rp_plot_data, when data is sorted in the direction as rp_plot
\* supplies it (non-increasing for 'descending', non-decreasing for
\* 'ascending'), the return periods drawn against the data points are
\* non-increasing across positions for both directions, and the return
\* period confidence bounds, whose ensemble is always built in 'descending'
\* order, are non-increasing too, so position i of the bounds is drawn
\* against data point i.
C30_RpBoundsLineUp ==
    (/\ fn = "_rp_plot_data" /\ pc = "returned"
     /\ direction \in {"ascending", "descending"}
     /\ data = rp_plot_sorted(data, direction)
     /\ Len(data) >= 2 /\ boot_size >= 1) =>
        LET n == Len(data)
            return_period == calls[1].x
            bounds == calls[5].x
        IN /\ Len(return_period) = n /\ calls[1].y = data
           /\ \A i \in 1..n :
                 return_period[i] = RDiv(R(1),
                     IF direction = "descending" THEN Sf(data[i], Fit(data))
                                                 ELSE Cdf(data[i], Fit(data)))
           /\ \A i \in 1..(n - 1) : RLeq(return_period[i + 1], return_period[i])
           /\ \A b \in 1..Len(nat_boot) : \A i \in 1..(n - 1) :
                 RLeq(nat_boot[b][i + 1], nat_boot[b][i])
           /\ calls[5].y = <<data, data>>
           /\ ret = <<bounds>>
           /\ \A k \in 1..2 :
                 /\ Len(bounds[k]) = n
                 /\ \A i \in 1..(n - 1) : RLeq(bounds[k][i + 1], bounds[k][i])
           /\ \A i \in 1..n : RLeq(bounds[1][i], bounds[2][i])

C30_Witness ==
    /\ fn = "_rp_plot_data" /\ pc = "returned" /\ direction = "ascending"
    /\ data = <<1, 3>> /\ boot_size = MaxBoot
    /\ calls[1].x = <<R(4), Frac(4, 3)>>
    /\ nat_boot[1] = <<R(4), Frac(4, 3)>>
    /\ RLess(ret[1][1][2], ret[1][1][1])
    /\ RLess(ret[1][2][2], ret[1][2][1])
====
